---- MODULE Spec2Model ----
(***************************************************************************)
(* Verification model of the deep-learning lab notebooks:                  *)
(*   - the training loops (regression loops, training_mlp_classifier,      *)
(*     train_val_mlp_classifier, training_val_cnn_classifier) and the      *)
(*     evaluation functions they call;                                     *)
(*   - the from-scratch Dataset classes (ImageDataset, SpeechDataset,      *)
(*     TextDataset) and their padding / tokenising helpers;                *)
(*   - the dataloaders the notebooks build and the cells that build them.  *)
(*   - the lab 3 MLP classifier's parameter count and the autograd         *)
(*     exercise of lab 2.                                                  *)
(* Tensors are abstracted: a model's parameters are identified by the      *)
(* number of optimizer steps applied to them, a batch by its samples.      *)
(***************************************************************************)
EXTENDS Integers, Sequences, FiniteSets, TLC

(***************************************************************************)
(* Bounds of the model                                                     *)
(***************************************************************************)
MaxEpochs == 2
MaxTrain == 3
MaxValid == 2
MaxBatch == 2

\* Program constants
LinRegEpochs == 10
NonLinRegEpochs == 50

\* loss.item() of a batch, drawn from a small set of values
LossValues == {1, 2}

(***************************************************************************)
(* State of one run of a training loop                                     *)
(***************************************************************************)
VARIABLES
    fn,              \* which training loop runs
    num_epochs,      \* argument num_epochs (or the literal of range(...))
    device,          \* argument device of training_val_cnn_classifier
    train_n,         \* len(train_dataloader.dataset)
    valid_n,         \* len(valid_dataloader.dataset)
    batch_size,      \* batch_size of both dataloaders
    model,           \* the caller's model object
    model0,          \* the caller's model object as it was at the call
    model_tr,        \* the local copy that is trained
    model_opt,       \* the recorded best model (Unbound until assigned)
    opt_epoch,       \* number of finished epochs when model_opt was copied
    opt_steps,       \* number of optimizer.step() calls so far
    grads,           \* state of the parameters' .grad: "stale", "zero", "fresh"
    pc,              \* position in the function
    epoch,           \* loop variable of the epoch loop (finished epochs)
    batch_index,     \* loop variable of the batch loop (finished batches)
    images,          \* number of samples of the batch at hand (0: none)
    loss,            \* loss of the batch at hand (0: none)
    tr_loss,         \* running loss of the epoch
    train_losses,    \* list returned as train_losses / loss_records
    val_accuracies,  \* list returned as val_accuracies
    accuracy_max,    \* accuracy_max / val_acc_opt
    ops,             \* the calls made so far for the batch at hand
    passes,          \* per finished epoch, the number of batches it stepped on
    epoch_log,       \* per epoch begun, the sum over its batches of the batch
                     \* loss times the samples of the batch, and its samples
    error            \* the exception that ended the run ("" if none)

tvars == <<fn, num_epochs, device, train_n, valid_n, batch_size, model, model0,
           model_tr, model_opt, opt_epoch, opt_steps, grads, pc, epoch,
           batch_index, images, loss, tr_loss, train_losses, val_accuracies,
           accuracy_max, ops, passes, epoch_log, error>>

(***************************************************************************)
(* State of a call of SpeechDataset._set_duration                          *)
(***************************************************************************)
VARIABLES
    y,                   \* the signal (a sequence of samples)
    y_in,                \* the signal as it was read from the file
    y_once,              \* the signal after the first call
    max_dur2,            \* max_dur, in half seconds
    sampling_frequency,  \* samples per second
    calls                \* number of calls of _set_duration so far

svars == <<y, y_in, y_once, max_dur2, sampling_frequency, calls>>

(***************************************************************************)
(* State of a call of TextDataset._tokenize_text                           *)
(***************************************************************************)
VARIABLES
    line,         \* first line of the text file (a sequence of characters)
    max_seq_len,  \* self.max_seq_len
    tokens        \* the list returned (NotCalled before the call)

xvars == <<line, max_seq_len, tokens>>

(***************************************************************************)
(* State of a Dataset object (ImageDataset, SpeechDataset, TextDataset)    *)
(***************************************************************************)
VARIABLES
    cls,          \* the class of the object
    constructed,  \* whether __init__ has run
    directory,  \* the files under the directory: path -> content
    walk,       \* the paths in the order os.walk found them
    path_list,  \* image_path_list / audio_path_list / text_files
    labels,     \* TextDataset.labels
    self_max_dur2,     \* SpeechDataset.max_dur, in half seconds
    self_max_seq_len,  \* TextDataset.max_seq_len
    vocab,             \* TextDataset.vocab
    word_to_index,     \* TextDataset.word_to_index
    index,      \* argument of the last __getitem__
    item        \* result of the last __getitem__ (NoItem: none yet)

cvars == <<cls, constructed, directory, walk, path_list, labels, self_max_dur2,
           self_max_seq_len, vocab, word_to_index, index, item>>

(***************************************************************************)
(* State of one iteration over a DataLoader                                *)
(***************************************************************************)
VARIABLES
    loader,   \* the dataloader: where it is built, dataset size, options
    batches,  \* the sizes of the batches yielded so far
    total_labels,    \* eval function: number of labels counted so far
    correct_labels,  \* eval function: number of correct predictions so far
    eval_accuracy,   \* eval function: the accuracy it returns
    lpc       \* "iterating", "done", "raised", "returned" or "zero_division"

lvars == <<loader, batches, total_labels, correct_labels, eval_accuracy, lpc>>

(***************************************************************************)
(* State of the notebook cell that splits the data and builds dataloaders  *)
(***************************************************************************)
VARIABLES
    notebook,          \* which notebook the cell belongs to
    cell_batch_size,   \* batch_size of the cell
    full_data,         \* the training subset before the split
    test_data,         \* the MNIST test set, where the notebook loads it
    train_data,        \* first part of random_split
    valid_data,        \* second part of random_split
    valid_dataloader,  \* the dataset valid_dataloader iterates over
    yielded,           \* samples valid_dataloader has yielded so far
    train_left,        \* samples train_dataloader has yet to yield in the epoch
    stepped,           \* samples of the batches used in an optimizer step
    npc                \* "cell", "training", "iterating", "done", "raised" or "value_error"

nvars == <<notebook, cell_batch_size, full_data, test_data, train_data,
           valid_data, valid_dataloader, yielded, train_left, stepped, npc>>

(***************************************************************************)
(* State of the cells that build the lab 3 MLP and count its parameters    *)
(***************************************************************************)
VARIABLES
    input_size,   \* argument input_size of MLPClassif
    hidden_size,  \* argument hidden_size of MLPClassif
    output_size,  \* argument output_size of MLPClassif
    parameters,   \* shapes of the tensors of model.parameters(), in order
    num_params,   \* the total the counting cell prints
    ppc           \* "new", "built" or "counted"

pvars == <<input_size, hidden_size, output_size, parameters, num_params, ppc>>

(***************************************************************************)
(* State of the autograd exercise cell                                     *)
(***************************************************************************)
VARIABLES
    ex_x,      \* data tensor x
    ex_y,      \* data tensor y
    ex_w,      \* parameter tensor w
    ex_b,      \* parameter tensor b
    ex_loss,   \* the loss tensor
    w_grad,    \* w.grad
    b_grad,    \* b.grad
    gpc        \* "new", "forward" or "backward"

gvars == <<ex_x, ex_y, ex_w, ex_b, ex_loss, w_grad, b_grad, gpc>>

vars == <<tvars, svars, xvars, cvars, lvars, nvars, pvars, gvars>>

\* The variables each part of the model leaves alone
notT == <<svars, xvars, cvars, lvars, nvars, pvars, gvars>>
notS == <<tvars, xvars, cvars, lvars, nvars, pvars, gvars>>
notX == <<tvars, svars, cvars, lvars, nvars, pvars, gvars>>
notC == <<tvars, svars, xvars, lvars, nvars, pvars, gvars>>
notL == <<tvars, svars, xvars, cvars, nvars, pvars, gvars>>
notN == <<tvars, svars, xvars, cvars, lvars, pvars, gvars>>
notP == <<tvars, svars, xvars, cvars, lvars, nvars, gvars>>
notG == <<tvars, svars, xvars, cvars, lvars, nvars, pvars>>

Regression == {"linear_regression", "nonlinear_regression"}
Classifiers == {"training_mlp_classifier", "train_val_mlp_classifier",
                "training_val_cnn_classifier"}
WithValidation == {"train_val_mlp_classifier", "training_val_cnn_classifier"}

NoModel == [params |-> 0, training |-> FALSE, device |-> "none"]
Unbound == [params |-> 0, training |-> FALSE, device |-> "unbound"]

Range(l) == {l[i] : i \in DOMAIN l}

\* A fraction num/den, the value of a Python true division
Frac(n, d) == [num |-> n, den |-> d]
Greater(a, b) == a.num * b.den > b.num * a.den

(***************************************************************************)
(* torch.utils.data.DataLoader: sizes of the batches of one pass           *)
(***************************************************************************)
\* (variant: the last, smaller batch is kept whatever drop_last says)
NumBatchesKeepLast(n, bs, drop_last) == (n + bs - 1) \div bs

NumBatches(n, bs, drop_last) ==
    IF drop_last THEN n \div bs ELSE (n + bs - 1) \div bs

\* (variant: every batch is given batch_size samples)
BatchLenFull(n, bs, i) == bs

\* Number of samples of batch i (from 1) of a pass
BatchLen(n, bs, i) ==
    IF i * bs <= n THEN bs ELSE n - (i - 1) * bs

\* drop_last of the train dataloader each notebook builds
TrainDropLast == fn = "training_mlp_classifier"

\* len(train_dataloader); the regression loops use the whole data as one batch
TrainBatches ==
    IF fn \in Regression THEN 1 ELSE NumBatches(train_n, batch_size, TrainDropLast)

TrainBatchLen(i) ==
    IF fn \in Regression THEN train_n ELSE BatchLen(train_n, batch_size, i)

\* len(valid_dataloader) (built without drop_last)
ValidBatches == NumBatches(valid_n, batch_size, FALSE)

(***************************************************************************)
(* copy.deepcopy(model): a new object with the same contents               *)
(***************************************************************************)
deepcopy(m) == [params |-> m.params, training |-> m.training, device |-> m.device]

\* The object the optimizer updates
Trained == IF fn \in Regression THEN model ELSE model_tr

\* (variant: model_tr is the caller's object itself, not a copy of it)
SetTrainedAliased(m) == model' = m /\ model_tr' = m

SetTrained(m) ==
    IF fn \in Regression
    THEN model' = m /\ UNCHANGED model_tr
    ELSE model_tr' = m /\ UNCHANGED model

Raise(e) == pc' = "raised" /\ error' = e

(***************************************************************************)
(* Initial state: the arguments of the call                                *)
(***************************************************************************)
InitTrain ==
    /\ fn \in Regression \cup Classifiers
    /\ num_epochs \in IF fn = "linear_regression" THEN {LinRegEpochs}
                      ELSE IF fn = "nonlinear_regression" THEN {NonLinRegEpochs}
                      ELSE 0..MaxEpochs
    /\ device \in IF fn = "training_val_cnn_classifier" THEN {"cpu", "cuda"}
                  ELSE {"cpu"}
    /\ train_n \in 1..MaxTrain
    /\ batch_size \in IF fn \in Regression THEN {train_n} ELSE 1..MaxBatch
    /\ valid_n \in IF fn \in WithValidation THEN 1..MaxValid ELSE {0}
    /\ model \in [params : {0}, training : BOOLEAN, device : {"cpu"}]
    /\ model0 = model
    /\ model_tr = NoModel
    /\ model_opt = Unbound
    /\ opt_epoch = 0
    /\ opt_steps = 0
    /\ grads = "stale"
    /\ pc = "call"
    /\ epoch = 0
    /\ batch_index = 0
    /\ images = 0
    /\ loss = 0
    /\ tr_loss = Frac(0, 1)
    /\ train_losses = <<>>
    /\ val_accuracies = <<>>
    /\ accuracy_max = Frac(0, 1)
    /\ ops = <<>>
    /\ passes = <<>>
    /\ epoch_log = <<>>
    /\ error = ""

\* No training loop runs
IdleTrain ==
    /\ fn = "none"
    /\ num_epochs = 0
    /\ device = "cpu"
    /\ train_n = 0
    /\ valid_n = 0
    /\ batch_size = 1
    /\ model = NoModel
    /\ model0 = NoModel
    /\ model_tr = NoModel
    /\ model_opt = Unbound
    /\ opt_epoch = 0
    /\ opt_steps = 0
    /\ grads = "stale"
    /\ pc = "idle"
    /\ epoch = 0
    /\ batch_index = 0
    /\ images = 0
    /\ loss = 0
    /\ tr_loss = Frac(0, 1)
    /\ train_losses = <<>>
    /\ val_accuracies = <<>>
    /\ accuracy_max = Frac(0, 1)
    /\ ops = <<>>
    /\ passes = <<>>
    /\ epoch_log = <<>>
    /\ error = ""

(***************************************************************************)
(* Function entry: copy of the model, optimizer, bookkeeping lists         *)
(***************************************************************************)
Enter ==
    /\ UNCHANGED notT
    /\ pc = "call"
    /\ IF fn \in Regression
       THEN UNCHANGED <<model_tr, model_opt>>
       ELSE /\ model_tr' = [deepcopy(model) EXCEPT
                               !.training = TRUE,
                               !.device = IF fn = "training_val_cnn_classifier"
                                          THEN device ELSE @]
            /\ model_opt' = IF fn = "train_val_mlp_classifier"
                            THEN deepcopy(model_tr') ELSE Unbound
    /\ pc' = "epoch"
    /\ UNCHANGED <<fn, num_epochs, device, train_n, valid_n, batch_size, model,
                   model0, opt_epoch, opt_steps, grads, epoch, batch_index,
                   images, loss, tr_loss, train_losses, val_accuracies,
                   accuracy_max, ops, passes, epoch_log, error>>

\* The arguments of the call, which no statement assigns
args == <<fn, num_epochs, device, train_n, valid_n, batch_size, model0>>

\* for epoch in range(num_epochs): tr_loss = 0
EpochHead ==
    /\ UNCHANGED notT
    /\ pc = "epoch"
    /\ IF epoch < num_epochs
       THEN /\ tr_loss' = Frac(0, 1)
            /\ batch_index' = 0
            /\ epoch_log' = Append(epoch_log, [sum |-> 0, samples |-> 0])
            /\ pc' = "batch"
       ELSE /\ pc' = "return"
            /\ UNCHANGED <<tr_loss, batch_index, epoch_log>>
    /\ UNCHANGED <<args, model, model_tr, model_opt, opt_epoch, opt_steps, grads,
                   epoch, images, loss, train_losses, val_accuracies,
                   accuracy_max, ops, passes, error>>

\* for batch_index, (images, labels) in enumerate(train_dataloader)
BatchHead ==
    /\ UNCHANGED notT
    /\ pc = "batch"
    /\ IF batch_index < TrainBatches
       THEN /\ images' = TrainBatchLen(batch_index + 1)
            /\ ops' = <<>>
            /\ pc' = "forward"
       ELSE /\ pc' = "epoch_end"
            /\ UNCHANGED <<images, ops>>
    /\ UNCHANGED <<args, epoch_log, model, model_tr, model_opt, opt_epoch, opt_steps, grads,
                   epoch, batch_index, loss, tr_loss, train_losses,
                   val_accuracies, accuracy_max, passes, error>>

\* images.view(batch_size, ...) followed by the model's linear layers accepts
\* only a batch of batch_size images
ViewAccepts(n) ==
    fn \in {"training_mlp_classifier", "train_val_mlp_classifier"} => n = batch_size

\* images.to(device); model_tr(images): input and weights on the same device
DeviceAccepts(m) ==
    fn = "training_val_cnn_classifier" => m.device = device

\* forward pass: y_pred = model(images)
Forward ==
    /\ UNCHANGED notT
    /\ pc = "forward"
    /\ IF ViewAccepts(images) /\ DeviceAccepts(Trained)
       THEN /\ ops' = Append(ops, "forward")
            /\ pc' = "loss"
            /\ UNCHANGED error
       ELSE /\ Raise("RuntimeError")
            /\ UNCHANGED ops
    /\ UNCHANGED <<args, epoch_log, model, model_tr, model_opt, opt_epoch, opt_steps, grads,
                   epoch, batch_index, images, loss, tr_loss, train_losses,
                   val_accuracies, accuracy_max, passes>>

\* In the regression loops the loss is a function of the parameters and of the
\* fixed data (x, y): it is named by the parameters it was computed with
RegressionLoss(m) == m.params + 1

\* loss = loss_fn(y_pred, labels)
Loss ==
    /\ UNCHANGED notT
    /\ pc = "loss"
    /\ IF fn \in Regression
       THEN loss' = RegressionLoss(Trained)
       ELSE loss' \in LossValues
    /\ ops' = Append(ops, "loss")
    /\ pc' = "zero_grad"
    /\ UNCHANGED <<args, epoch_log, model, model_tr, model_opt, opt_epoch, opt_steps, grads,
                   epoch, batch_index, images, tr_loss, train_losses,
                   val_accuracies, accuracy_max, passes, error>>

\* optimizer.zero_grad()
ZeroGrad ==
    /\ UNCHANGED notT
    /\ pc = "zero_grad"
    /\ grads' = "zero"
    /\ ops' = Append(ops, "zero_grad")
    /\ pc' = "backward"
    /\ UNCHANGED <<args, epoch_log, model, model_tr, model_opt, opt_epoch, opt_steps,
                   epoch, batch_index, images, loss, tr_loss, train_losses,
                   val_accuracies, accuracy_max, passes, error>>

\* loss.backward()
Backward ==
    /\ UNCHANGED notT
    /\ pc = "backward"
    /\ grads' = "fresh"
    /\ ops' = Append(ops, "backward")
    /\ pc' = "step"
    /\ UNCHANGED <<args, epoch_log, model, model_tr, model_opt, opt_epoch, opt_steps,
                   epoch, batch_index, images, loss, tr_loss, train_losses,
                   val_accuracies, accuracy_max, passes, error>>

\* The parameters after one optimizer.step()
Stepped(m) == [m EXCEPT !.params = @ + 1]

\* optimizer.step()
Step ==
    /\ UNCHANGED notT
    /\ pc = "step"
    /\ SetTrained(Stepped(Trained))
    /\ opt_steps' = opt_steps + 1
    /\ grads' = "stale"
    /\ ops' = Append(ops, "step")
    /\ pc' = "account"
    /\ UNCHANGED <<args, epoch_log, model_opt, opt_epoch, epoch, batch_index, images, loss,
                   tr_loss, train_losses, val_accuracies, accuracy_max, passes,
                   error>>

\* (variant: every function weights the loss of a batch by batch_size)
LossWeightBatchSize == batch_size

\* The factor of loss.item() in the update of tr_loss
LossWeight ==
    IF fn = "training_val_cnn_classifier" THEN images ELSE batch_size

\* tr_loss += loss.item() * ...; the regression loops print the loss and the
\* nonlinear one records it
Account ==
    /\ UNCHANGED notT
    /\ pc = "account"
    /\ IF fn \in Regression
       THEN /\ train_losses' = IF fn = "nonlinear_regression"
                               THEN Append(train_losses, Frac(loss, 1))
                               ELSE train_losses
            /\ UNCHANGED tr_loss
       ELSE /\ tr_loss' = Frac(tr_loss.num + loss * LossWeight, 1)
            /\ UNCHANGED train_losses
    /\ epoch_log' = [epoch_log EXCEPT ![Len(epoch_log)] =
                         [sum |-> @.sum + loss * images,
                          samples |-> @.samples + images]]
    /\ batch_index' = batch_index + 1
    /\ images' = 0
    /\ loss' = 0
    /\ pc' = "batch"
    /\ UNCHANGED <<args, model, model_tr, model_opt, opt_epoch, opt_steps, grads,
                   epoch, val_accuracies, accuracy_max, ops, passes, error>>

\* The divisor of tr_loss at the end of an epoch
LossDivisor ==
    IF fn = "training_val_cnn_classifier" THEN train_n
    ELSE TrainBatches * batch_size

\* End of the batch loop: the average training loss is stored
EpochEnd ==
    /\ UNCHANGED notT
    /\ pc = "epoch_end"
    /\ IF fn \in Regression
       THEN /\ epoch' = epoch + 1
            /\ passes' = Append(passes, batch_index)
            /\ pc' = "epoch"
            /\ UNCHANGED <<tr_loss, train_losses, error>>
       ELSE IF LossDivisor = 0
       THEN /\ Raise("ZeroDivisionError")
            /\ UNCHANGED <<tr_loss, train_losses, epoch, passes>>
       ELSE /\ tr_loss' = Frac(tr_loss.num, LossDivisor)
            /\ train_losses' = Append(train_losses, tr_loss')
            /\ passes' = Append(passes, batch_index)
            /\ IF fn \in WithValidation
               THEN pc' = "validate" /\ UNCHANGED epoch
               ELSE pc' = "epoch" /\ epoch' = epoch + 1
            /\ UNCHANGED error
    /\ UNCHANGED <<args, epoch_log, model, model_tr, model_opt, opt_epoch, opt_steps, grads,
                   batch_index, images, loss, val_accuracies, accuracy_max, ops>>

\* model.eval() and, in eval_cnn_classifier, model.to(device) with the default
\* device 'cpu' (the training function passes no device)
Evaluated(m) ==
    [m EXCEPT !.training = FALSE,
              !.device = IF fn = "training_val_cnn_classifier" THEN "cpu" ELSE @]

\* Every batch of the validation dataloader passes the reshape of
\* eval_mlp_classifier
ValidAccepted ==
    \A i \in 1..ValidBatches : ViewAccepts(BatchLen(valid_n, batch_size, i))

\* (variant: the ratio correct_labels / total_labels, not a percentage)
AccuracyRatio(correct, total) == Frac(correct, total)

\* accuracy = 100 * correct_labels / total_labels
Accuracy(correct, total) == Frac(100 * correct, total)

\* if accuracy > accuracy_max
Improves(accuracy) == Greater(accuracy, accuracy_max)

\* Validation at the end of an epoch: eval function, record of the best model
Validate ==
    /\ UNCHANGED notT
    /\ pc = "validate"
    /\ model_tr' = Evaluated(model_tr)
    /\ IF ~ValidAccepted
       THEN /\ Raise("RuntimeError")
            /\ UNCHANGED <<val_accuracies, accuracy_max, model_opt, opt_epoch,
                           epoch>>
       ELSE IF valid_n = 0
       THEN /\ Raise("ZeroDivisionError")
            /\ UNCHANGED <<val_accuracies, accuracy_max, model_opt, opt_epoch,
                           epoch>>
       ELSE \E correct \in 0..valid_n :
              LET accuracy == Accuracy(correct, valid_n) IN
              /\ val_accuracies' = Append(val_accuracies, accuracy)
              /\ IF Improves(accuracy)
                 THEN /\ accuracy_max' = accuracy
                      /\ model_opt' = deepcopy(model_tr')
                      /\ opt_epoch' = epoch + 1
                 ELSE UNCHANGED <<accuracy_max, model_opt, opt_epoch>>
              /\ epoch' = epoch + 1
              /\ pc' = "epoch"
              /\ UNCHANGED error
    /\ UNCHANGED <<args, epoch_log, model, opt_steps, grads, batch_index, images, loss,
                   tr_loss, train_losses, ops, passes>>

\* return model_opt, train_losses, val_accuracies: model_opt is a local name
\* that training_val_cnn_classifier binds only inside the loop
Return ==
    /\ UNCHANGED notT
    /\ pc = "return"
    /\ IF fn = "training_val_cnn_classifier" /\ model_opt = Unbound
       THEN Raise("UnboundLocalError")
       ELSE pc' = "returned" /\ UNCHANGED error
    /\ UNCHANGED <<args, epoch_log, model, model_tr, model_opt, opt_epoch, opt_steps, grads,
                   epoch, batch_index, images, loss, tr_loss, train_losses,
                   val_accuracies, accuracy_max, ops, passes>>

NextTrain ==
    \/ Enter
    \/ EpochHead
    \/ BatchHead
    \/ Forward
    \/ Loss
    \/ ZeroGrad
    \/ Backward
    \/ Step
    \/ Account
    \/ EpochEnd
    \/ Validate
    \/ Return

(***************************************************************************)
(* SpeechDataset._set_duration                                             *)
(***************************************************************************)
MaxSignal == 4
MaxDur2 == 4
MaxFreq == 2
SampleValues == {1, 2}

SeqsUpTo(S, n) == UNION {[1..k -> S] : k \in 0..n}

\* torch.zeros(n)
zeros(n) == [i \in 1..n |-> 0]

\* int(max_dur * sampling_frequency), max_dur being dur2 / 2
max_len(dur2, freq) == (dur2 * freq) \div 2

\* (variant: the padding does not take the signal's length off)
set_duration_longpad(sig, dur2, freq) ==
    IF Len(sig) > max_len(dur2, freq)
    THEN SubSeq(sig, 1, max_len(dur2, freq))
    ELSE sig \o zeros(max_len(dur2, freq))

set_duration(sig, dur2, freq) ==
    IF Len(sig) > max_len(dur2, freq)
    THEN SubSeq(sig, 1, max_len(dur2, freq))
    ELSE sig \o zeros(max_len(dur2, freq) - Len(sig))

InitSpeech ==
    /\ y_in \in SeqsUpTo(SampleValues, MaxSignal)
    /\ y = y_in
    /\ y_once = <<>>
    /\ max_dur2 \in 0..MaxDur2
    /\ sampling_frequency \in 1..MaxFreq
    /\ calls = 0

IdleSpeech ==
    /\ y_in = <<>>
    /\ y = <<>>
    /\ y_once = <<>>
    /\ max_dur2 = 0
    /\ sampling_frequency = 1
    /\ calls = 0

\* y = self._set_duration(y, self.max_dur, sampling_frequency)
SetDuration ==
    /\ UNCHANGED notS
    /\ calls < 2
    /\ y' = set_duration(y, max_dur2, sampling_frequency)
    /\ y_once' = IF calls = 0 THEN y' ELSE y_once
    /\ calls' = calls + 1
    /\ UNCHANGED <<y_in, max_dur2, sampling_frequency>>

(***************************************************************************)
(* TextDataset._tokenize_text                                              *)
(***************************************************************************)
MaxText == 4
MaxSeqLen == 2

\* Characters of a text: lowercase letters, an uppercase letter, the space
\* and a punctuation mark; a line ends with a tab, the label and a newline
TextChars == {"a", "b", "B", " ", "!"}
LabelChars == {"0", "1"}
letters == {"a", "b"}
whitespace == {" ", "\t", "\n"}
NotCalled == <<"not called">>

\* str.lower()
lower(s) == [i \in 1..Len(s) |-> IF s[i] = "B" THEN "b" ELSE s[i]]

\* str.strip()
RECURSIVE lstrip(_)
lstrip(s) ==
    IF s # <<>> /\ Head(s) \in whitespace THEN lstrip(Tail(s)) ELSE s

RECURSIVE rstrip(_)
rstrip(s) ==
    IF s # <<>> /\ s[Len(s)] \in whitespace
    THEN rstrip(SubSeq(s, 1, Len(s) - 1)) ELSE s

strip(s) == rstrip(lstrip(s))

\* for char in not_letters: text = text.replace(char, " ")
replace_not_letters(s) ==
    [i \in 1..Len(s) |-> IF s[i] \notin letters /\ s[i] # " " THEN " " ELSE s[i]]

\* str.split(): the maximal runs of characters that are not whitespace
RECURSIVE split_from(_, _, _)
split_from(s, word, acc) ==
    IF s = <<>>
    THEN IF word = <<>> THEN acc ELSE Append(acc, word)
    ELSE IF Head(s) \in whitespace
    THEN split_from(Tail(s), <<>>, IF word = <<>> THEN acc ELSE Append(acc, word))
    ELSE split_from(Tail(s), Append(word, Head(s)), acc)

split(s) == split_from(s, <<>>, <<>>)

\* for i in range(self.max_seq_len - len(tokens)): tokens.append("[PAD]")
pad(words, n) ==
    words \o [i \in 1..(IF n > Len(words) THEN n - Len(words) ELSE 0) |-> <<"[PAD]">>]

tokenize_text(first_line, n) ==
    pad(split(replace_not_letters(lower(strip(first_line)))), n)

InitText ==
    /\ \E text \in SeqsUpTo(TextChars, MaxText), label \in LabelChars :
           line = text \o <<"\t", label, "\n">>
    /\ max_seq_len \in 1..MaxSeqLen
    /\ tokens = NotCalled

IdleText ==
    /\ line = <<>>
    /\ max_seq_len = 1
    /\ tokens = NotCalled

\* tokens = self._tokenize_text(text_file)
TokenizeText ==
    /\ UNCHANGED notX
    /\ tokens = NotCalled
    /\ tokens' = tokenize_text(line, max_seq_len)
    /\ UNCHANGED <<line, max_seq_len>>

(***************************************************************************)
(* The Dataset classes                                                     *)
(***************************************************************************)
MaxFiles == 3

\* A path is the sequence of the code points of its characters
DotPng == <<46, 112, 110, 103>>
DotWav == <<46, 119, 97, 118>>
DotTxt == <<46, 116, 120, 116>>

\* The directory given to the constructor: "d/"
DirName == <<100, 47>>

\* File names without extension: "a", "ab", "a-", "b/a"
BaseNames == {<<97>>, <<97, 98>>, <<97, 45>>, <<98, 47, 97>>}

\* os.path.join(root, filename) for the files under the directory
FilePaths == {DirName \o b \o e : b \in BaseNames, e \in {DotPng, DotWav, DotTxt}}

\* io.imread: the pixels of an image file, two files to choose from
ImageContents == << <<0>>, <<255, 51>> >>

\* sf.read: the signal of an audio file and its sampling frequency
AudioContents == <<[y |-> <<1>>, fs |-> 1], [y |-> <<1, 2, 1>>, fs |-> 2]>>

\* The first line of a text file: "b a\t1\n" and "a!B\t0\n"
TextContents ==
    << <<"b", " ", "a", "\t", "1", "\n">>, <<"a", "!", "B", "\t", "0", "\n">> >>

\* The files to choose from for each path
Contents == {1, 2}

\* The pattern of _find_files of each class
Pattern(c) ==
    CASE c = "ImageDataset" -> DotPng
      [] c = "SpeechDataset" -> DotWav
      [] c = "TextDataset" -> DotTxt

\* fnmatch.filter(filenames, "*" + ext)
fnmatch(path, ext) ==
    /\ Len(path) >= Len(ext)
    /\ SubSeq(path, Len(path) - Len(ext) + 1, Len(path)) = ext

\* What the file of the given path holds, by its kind
FileContent(path, k) ==
    IF fnmatch(path, DotPng) THEN ImageContents[k]
    ELSE IF fnmatch(path, DotWav) THEN AudioContents[k]
    ELSE TextContents[k]

\* The files _find_files appends, as a set
find_files(dir, c) == {f \in DOMAIN dir : fnmatch(f, Pattern(c))}

\* Python's order of strings: by code point, a proper prefix first
RECURSIVE str_less(_, _)
str_less(a, b) ==
    IF b = <<>> THEN FALSE
    ELSE IF a = <<>> THEN TRUE
    ELSE IF Head(a) # Head(b) THEN Head(a) < Head(b)
    ELSE str_less(Tail(a), Tail(b))

\* Insertion of a string into a sorted list
RECURSIVE insert(_, _)
insert(x, l) ==
    IF l = <<>> THEN <<x>>
    ELSE IF str_less(Head(l), x) THEN <<Head(l)>> \o insert(x, Tail(l))
    ELSE <<x>> \o l

\* (variant: the list is kept in the order os.walk gave)
unsorted(l) == l

\* sorted(l)
RECURSIVE sorted(_)
sorted(l) == IF l = <<>> THEN <<>> ELSE insert(Head(l), sorted(Tail(l)))

\* l[i] of Python, for -len(l) <= i < len(l)
py_index(l, i) == IF i >= 0 THEN l[i + 1] ELSE l[Len(l) + i + 1]

\* s.replace(old, ""): s without the occurrences of old, found left to right
RECURSIVE remove(_, _)
remove(s, old) ==
    IF Len(s) < Len(old) THEN s
    ELSE IF SubSeq(s, 1, Len(old)) = old
    THEN remove(SubSeq(s, Len(old) + 1, Len(s)), old)
    ELSE <<Head(s)>> \o remove(Tail(s), old)

\* path.replace(self.image_dir, "").replace(".png", "")
name_of(path, ext) == remove(remove(path, DirName), ext)

\* The code point of a character
ord(c) ==
    CASE c = "a" -> 97 [] c = "b" -> 98 [] c = "B" -> 66 [] c = " " -> 32
      [] c = "!" -> 33 [] c = "0" -> 48 [] c = "1" -> 49 [] c = "\t" -> 9
      [] c = "\n" -> 10

codes(word) == [i \in 1..Len(word) |-> ord(word[i])]

\* The code points of "[PAD]"
PadCodes == <<91, 80, 65, 68, 93>>

\* line.split("\t")
RECURSIVE split_tab_from(_, _, _)
split_tab_from(s, part, acc) ==
    IF s = <<>> THEN Append(acc, part)
    ELSE IF Head(s) = "\t" THEN split_tab_from(Tail(s), <<>>, Append(acc, part))
    ELSE split_tab_from(Tail(s), Append(part, Head(s)), acc)

split_tab(s) == split_tab_from(s, <<>>, <<>>)

\* int(label), for a label of one digit between whitespace
int_of(s) == IF strip(s) = <<"1">> THEN 1 ELSE 0

\* TextDataset._get_labels: the label of every file of text_files, in order
get_labels(dir, files) ==
    [i \in 1..Len(files) |-> int_of(split_tab(dir[files[i]])[2])]

\* The sequences that list every element of S once
Orders(S) ==
    {l \in [1..Cardinality(S) -> S] : \A i, j \in DOMAIN l : i # j => l[i] # l[j]}

\* " ".join(all_texts)
RECURSIVE join(_)
join(texts) ==
    IF texts = <<>> THEN <<>>
    ELSE IF Len(texts) = 1 THEN Head(texts)
    ELSE Head(texts) \o <<" ">> \o join(Tail(texts))

\* TextDataset._create_vocabulary: the set of the words of all the files
create_vocabulary(dir, files) ==
    Range(split(replace_not_letters(
        join([i \in 1..Len(files) |-> lower(strip(dir[files[i]]))]))))

\* sorted(self._create_vocabulary()), the words as code points
sorted_vocabulary(dir, files) ==
    LET words == {codes(w) : w \in create_vocabulary(dir, files)}
    IN  sorted(CHOOSE l \in Orders(words) : TRUE)

\* {word: idx for idx, word in enumerate(sorted(self.vocab))} and
\* word_to_index["[PAD]"] = -1, the words as code points
make_word_to_index(voc) ==
    LET again == sorted(voc) IN
    [w \in Range(voc) \cup {PadCodes} |->
        IF w = PadCodes THEN 0 - 1
        ELSE (CHOOSE k \in 1..Len(again) : again[k] = w) - 1]

\* word_to_index[word]
token_id(w2i, word) ==
    IF word = <<"[PAD]">> THEN w2i[PadCodes] ELSE w2i[codes(word)]

NoItem == [path |-> <<>>, x |-> <<>>, name |-> <<>>, fs |-> 0, label |-> 0]

InitDataset ==
    /\ cls \in {"ImageDataset", "SpeechDataset", "TextDataset"}
    /\ constructed = FALSE
    /\ \E files \in {S \in SUBSET FilePaths : Cardinality(S) <= MaxFiles} :
           \E choice \in [files -> Contents] :
               directory = [f \in files |-> FileContent(f, choice[f])]
    /\ self_max_dur2 \in IF cls = "SpeechDataset" THEN 0..MaxDur2 ELSE {0}
    /\ self_max_seq_len \in IF cls = "TextDataset" THEN 1..MaxSeqLen ELSE {1}
    /\ walk = <<>>
    /\ path_list = <<>>
    /\ labels = <<>>
    /\ vocab = <<>>
    /\ word_to_index = <<>>
    /\ index = 0
    /\ item = NoItem

IdleDataset ==
    /\ cls = "none"
    /\ constructed = FALSE
    /\ directory = <<>>
    /\ self_max_dur2 = 0
    /\ self_max_seq_len = 1
    /\ walk = <<>>
    /\ path_list = <<>>
    /\ labels = <<>>
    /\ vocab = <<>>
    /\ word_to_index = <<>>
    /\ index = 0
    /\ item = NoItem

\* __init__: the sorted list of the files found and, in TextDataset, the
\* labels, the vocabulary and the index of each word
Construct ==
    /\ UNCHANGED notC
    /\ cls # "none"
    /\ ~constructed
    /\ constructed' = TRUE
    /\ walk' \in Orders(find_files(directory, cls))
    /\ path_list' = sorted(walk')
    /\ IF cls = "TextDataset"
       THEN /\ labels' = get_labels(directory, path_list')
            /\ vocab' = sorted_vocabulary(directory, path_list')
            /\ word_to_index' = make_word_to_index(vocab')
       ELSE UNCHANGED <<labels, vocab, word_to_index>>
    /\ UNCHANGED <<cls, directory, self_max_dur2, self_max_seq_len, index, item>>

\* __len__
len(paths) == Len(paths)

\* ImageDataset.__getitem__: the pixels divided by 255.0 and the name
image_getitem(dir, paths, i) ==
    LET image_path == py_index(paths, i) IN
    [path |-> image_path,
     x |-> [k \in 1..Len(dir[image_path]) |-> Frac(dir[image_path][k], 255)],
     name |-> name_of(image_path, DotPng),
     fs |-> 0,
     label |-> 0]

\* SpeechDataset.__getitem__: the signal set to the duration max_dur, the
\* sampling frequency and the name
speech_getitem(dir, paths, i) ==
    LET audio_path == py_index(paths, i) IN
    [path |-> audio_path,
     x |-> set_duration(dir[audio_path].y, self_max_dur2, dir[audio_path].fs),
     name |-> name_of(audio_path, DotWav),
     fs |-> dir[audio_path].fs,
     label |-> 0]

\* TextDataset.__getitem__: the ids of the tokens of the text and the label
text_getitem(dir, paths, labs, i) ==
    LET text_file == py_index(paths, i)
        toks == tokenize_text(dir[text_file], self_max_seq_len)
    IN  [path |-> text_file,
         x |-> [k \in 1..Len(toks) |-> token_id(word_to_index, toks[k])],
         name |-> <<>>,
         fs |-> 0,
         label |-> py_index(labs, i)]

\* __getitem__(i) for -len <= i < len
getitem(dir, paths, labs, c, i) ==
    CASE c = "ImageDataset" -> image_getitem(dir, paths, i)
      [] c = "SpeechDataset" -> speech_getitem(dir, paths, i)
      [] c = "TextDataset" -> text_getitem(dir, paths, labs, i)

GetItem ==
    /\ UNCHANGED notC
    /\ constructed
    /\ \E i \in (0 - len(path_list))..(len(path_list) - 1) :
           /\ index' = i
           /\ item' = getitem(directory, path_list, labels, cls, i)
    /\ UNCHANGED <<cls, constructed, directory, walk, path_list, labels,
                   self_max_dur2, self_max_seq_len, vocab, word_to_index>>

(***************************************************************************)
(* Iteration over the dataloaders the notebooks build                      *)
(***************************************************************************)
MaxItems == 5

\* Program constants
Lab3TrainSize == 400
Lab3TestSize == 50
Lab3BatchSize == 8
\* The images of data/image_corpus: the notebook observes 30 batches of 5
\* images and a last batch of 1 image
ImageCorpusSize == 151
\* The number of images the notebook's text gives for the same corpus
StatedCorpusSize == 150
ImageBatchSize == 5

\* view: the loop body reshapes each batch with images.view(batch_size, -1)
\* and passes it to the model; eval: the loop is the one of an eval function
Lab3TrainLoader ==
    [name |-> "train_dataloader", n |-> Lab3TrainSize,
     batch_size |-> Lab3BatchSize, drop_last |-> TRUE, view |-> TRUE,
     eval |-> FALSE]

Lab3TestLoader ==
    [name |-> "test_dataloader", n |-> Lab3TestSize,
     batch_size |-> Lab3BatchSize, drop_last |-> TRUE, view |-> TRUE,
     eval |-> TRUE]

ImageLoader ==
    [name |-> "image_dataloader", n |-> ImageCorpusSize,
     batch_size |-> ImageBatchSize, drop_last |-> FALSE, view |-> FALSE,
     eval |-> FALSE]

ImageLoaderDropLast ==
    [name |-> "image_dataloader", n |-> ImageCorpusSize,
     batch_size |-> ImageBatchSize, drop_last |-> TRUE, view |-> FALSE,
     eval |-> FALSE]

\* DataLoader(dataset, batch_size=batch_size, shuffle=True) over a dataset
\* of exactly the 150 images the text speaks of
StatedImageLoader ==
    [name |-> "image_dataloader", n |-> StatedCorpusSize,
     batch_size |-> ImageBatchSize, drop_last |-> FALSE, view |-> FALSE,
     eval |-> FALSE]

\* Dataloaders over small datasets, with every combination of options
SmallLoaders ==
    [name : {"dataloader"}, n : 0..MaxItems, batch_size : 1..MaxBatch,
     drop_last : BOOLEAN, view : BOOLEAN, eval : BOOLEAN]

InitLoader ==
    /\ loader \in {Lab3TrainLoader, Lab3TestLoader, ImageLoader,
                   ImageLoaderDropLast, StatedImageLoader} \cup SmallLoaders
    /\ batches = <<>>
    /\ total_labels = 0
    /\ correct_labels = 0
    /\ eval_accuracy = Frac(0, 0)
    /\ lpc = "iterating"

IdleLoader ==
    /\ loader = [name |-> "none", n |-> 0, batch_size |-> 1,
                 drop_last |-> FALSE, view |-> FALSE, eval |-> FALSE]
    /\ batches = <<>>
    /\ total_labels = 0
    /\ correct_labels = 0
    /\ eval_accuracy = Frac(0, 0)
    /\ lpc = "idle"

\* len(dataloader)
LoaderBatches == NumBatches(loader.n, loader.batch_size, loader.drop_last)

\* (labels_predicted == labels).sum().item()
sum(matches) == Cardinality({i \in DOMAIN matches : matches[i]})

\* The dataloader yields its next batch to the loop body; an eval function
\* then counts the labels of the batch and the correct predictions
NextBatch ==
    /\ UNCHANGED notL
    /\ lpc = "iterating"
    /\ Len(batches) < LoaderBatches
    /\ LET k == BatchLen(loader.n, loader.batch_size, Len(batches) + 1) IN
       /\ batches' = Append(batches, k)
       /\ IF loader.view /\ k # loader.batch_size
          THEN /\ lpc' = "raised"
               /\ UNCHANGED <<total_labels, correct_labels>>
          ELSE /\ lpc' = "iterating"
               /\ IF loader.eval
                  THEN \E matches \in [1..k -> BOOLEAN] :
                           /\ total_labels' = total_labels + k
                           /\ correct_labels' = correct_labels + sum(matches)
                  ELSE UNCHANGED <<total_labels, correct_labels>>
    /\ UNCHANGED <<loader, eval_accuracy>>

\* The dataloader is exhausted: the for loop ends
StopIteration ==
    /\ UNCHANGED notL
    /\ lpc = "iterating"
    /\ Len(batches) = LoaderBatches
    /\ lpc' = "done"
    /\ UNCHANGED <<loader, batches, total_labels, correct_labels, eval_accuracy>>

\* accuracy = 100 * correct_labels / total_labels; return accuracy
EvalReturn ==
    /\ UNCHANGED notL
    /\ lpc = "done"
    /\ loader.eval
    /\ IF total_labels = 0
       THEN lpc' = "zero_division" /\ UNCHANGED eval_accuracy
       ELSE /\ eval_accuracy' = Accuracy(correct_labels, total_labels)
            /\ lpc' = "returned"
    /\ UNCHANGED <<loader, batches, total_labels, correct_labels>>

(***************************************************************************)
(* The cells that split the training data and build the dataloaders        *)
(***************************************************************************)
MaxSplit == 4
MaxTest == 2

Min(a, b) == IF a < b THEN a ELSE b

\* Subset(train_data, torch.arange(n)): samples 0..n-1 of the MNIST train set
TrainSubset(n) == [i \in 1..n |-> <<"train", i>>]

\* The MNIST test set
TestSet(n) == [i \in 1..n |-> <<"test", i>>]

\* int(len(train_data) * 0.8)
n_train_examples(n) == (4 * n) \div 5

\* len(train_data) - n_train_examples
n_valid_examples(n) == n - n_train_examples(n)

InitCell ==
    /\ notebook \in {"overfitting", "autoencoder"}
    /\ cell_batch_size \in 1..MaxBatch
    /\ \E n \in 1..MaxSplit : full_data = TrainSubset(n)
    /\ \E n \in 1..MaxTest :
           test_data = IF notebook = "autoencoder" THEN TestSet(n) ELSE <<>>
    /\ train_data = <<>>
    /\ valid_data = <<>>
    /\ valid_dataloader = <<>>
    /\ yielded = <<>>
    /\ train_left = {}
    /\ stepped = {}
    /\ npc = "cell"

IdleCell ==
    /\ notebook = "none"
    /\ cell_batch_size = 1
    /\ full_data = <<>>
    /\ test_data = <<>>
    /\ train_data = <<>>
    /\ valid_data = <<>>
    /\ valid_dataloader = <<>>
    /\ yielded = <<>>
    /\ train_left = {}
    /\ stepped = {}
    /\ npc = "idle"

\* Program constant: size of the training subset of the overfitting notebook
Lab4SubsetSize == 2000

\* (variant: train_dataloader is built over the data before the split)
TrainLoaderDatasetUnsplit(train, full) == full

\* The dataset handed to DataLoader(...) for train_dataloader
TrainLoaderDataset(train, full) == train

\* The dataset handed to DataLoader(...) for valid_dataloader
ValidLoaderDataset(valid, test) ==
    IF notebook = "autoencoder" THEN test ELSE valid

\* random_split(train_data, [n_train_examples, n_valid_examples]) and the
\* definition of the dataloaders; DataLoader(..., shuffle=True) builds a
\* RandomSampler, which raises ValueError over an empty dataset, and then
\* valid_dataloader is never defined
SplitCell ==
    /\ UNCHANGED notN
    /\ npc = "cell"
    /\ \E perm \in Orders(Range(full_data)) :
           LET n == Len(full_data) IN
           /\ train_data' = SubSeq(perm, 1, n_train_examples(n))
           /\ valid_data' = SubSeq(perm, n_train_examples(n) + 1,
                                   n_train_examples(n) + n_valid_examples(n))
    /\ yielded' = <<>>
    /\ IF Len(TrainLoaderDataset(train_data', full_data)) = 0
       THEN /\ npc' = "value_error"
            /\ UNCHANGED <<valid_dataloader, train_left>>
       ELSE /\ valid_dataloader' = ValidLoaderDataset(valid_data', test_data)
            /\ train_left' = Range(TrainLoaderDataset(train_data', full_data))
            /\ npc' = IF notebook = "overfitting" THEN "training"
                                                   ELSE "iterating"
    /\ UNCHANGED <<notebook, cell_batch_size, full_data, test_data, stepped>>

\* One batch of the epoch of train_val_mlp_classifier: the shuffling
\* train_dataloader yields a batch, which is reshaped and used in an optimizer
\* step; after the last batch the validation accuracy is computed
TrainBatch ==
    /\ UNCHANGED notN
    /\ npc = "training"
    /\ IF train_left = {}
       THEN /\ npc' = "iterating"
            /\ UNCHANGED <<train_left, stepped>>
       ELSE \E batch \in SUBSET train_left :
                /\ Cardinality(batch) = Min(cell_batch_size, Cardinality(train_left))
                /\ train_left' = train_left \ batch
                /\ IF Cardinality(batch) = cell_batch_size
                   THEN stepped' = stepped \cup batch /\ UNCHANGED npc
                   ELSE npc' = "raised" /\ UNCHANGED stepped
    /\ UNCHANGED <<notebook, cell_batch_size, full_data, test_data, train_data,
                   valid_data, valid_dataloader, yielded>>

\* valid_dataloader yields its next batch (it does not shuffle); in the
\* overfitting notebook the loop is the one of eval_mlp_classifier, whose
\* images.view(batch_size, -1) and forward pass raise RuntimeError on a batch
\* of fewer than batch_size samples
ValidBatch ==
    /\ UNCHANGED notN
    /\ npc = "iterating"
    /\ Len(yielded) < Len(valid_dataloader)
    /\ LET last == Min(Len(yielded) + cell_batch_size, Len(valid_dataloader)) IN
       /\ yielded' = yielded \o SubSeq(valid_dataloader, Len(yielded) + 1, last)
       /\ npc' = IF notebook = "overfitting"
                    /\ last - Len(yielded) < cell_batch_size
                 THEN "raised" ELSE npc
    /\ UNCHANGED <<notebook, cell_batch_size, full_data, test_data, train_data,
                   valid_data, valid_dataloader, train_left, stepped>>

\* valid_dataloader is exhausted
ValidDone ==
    /\ UNCHANGED notN
    /\ npc = "iterating"
    /\ Len(yielded) = Len(valid_dataloader)
    /\ npc' = "done"
    /\ UNCHANGED <<notebook, cell_batch_size, full_data, test_data, train_data,
                   valid_data, valid_dataloader, yielded, train_left, stepped>>

(***************************************************************************)
(* The lab 3 MLP classifier and the count of its parameters                *)
(***************************************************************************)
MaxSize == 4

\* Program constants: the MNIST images are [1, 28, 28]; hidden_size and
\* output_size of lab 3
ImageChannels == 1
ImageHeight == 28
ImageWidth == 28
Lab3HiddenSize == 10
Lab3OutputSize == 10

\* input_size = vectorized_batch.shape[-1]
Lab3InputSize == ImageChannels * ImageHeight * ImageWidth

\* (variant: a linear layer with a weight and no bias)
LinearNoBias(in_features, out_features) == << <<out_features, in_features>> >>

\* nn.Linear(in_features, out_features): a weight of shape
\* [out_features, in_features] and a bias of shape [out_features]
Linear(in_features, out_features) ==
    << <<out_features, in_features>>, <<out_features>> >>

\* MLPClassif.__init__: input, hidden and output layer (the activation
\* functions have no parameters)
MLPClassif(input, hidden, output) ==
    Linear(input, hidden) \o Linear(hidden, hidden) \o Linear(hidden, output)

\* p.numel(): the number of elements of a tensor of the given shape
RECURSIVE numel(_)
numel(shape) == IF shape = <<>> THEN 1 ELSE Head(shape) * numel(Tail(shape))

\* sum(p.numel() for p in model.parameters())
RECURSIVE sum_numel(_)
sum_numel(ps) == IF ps = <<>> THEN 0 ELSE numel(Head(ps)) + sum_numel(Tail(ps))

InitParams ==
    /\ \E sizes \in ((1..MaxSize) \X (1..MaxSize) \X (1..MaxSize))
                      \cup {<<Lab3InputSize, Lab3HiddenSize, Lab3OutputSize>>} :
           /\ input_size = sizes[1]
           /\ hidden_size = sizes[2]
           /\ output_size = sizes[3]
    /\ parameters = <<>>
    /\ num_params = 0
    /\ ppc = "new"

IdleParams ==
    /\ input_size = 1
    /\ hidden_size = 1
    /\ output_size = 1
    /\ parameters = <<>>
    /\ num_params = 0
    /\ ppc = "idle"

\* model = MLPClassif(input_size, hidden_size, output_size, act_fn)
Instantiate ==
    /\ UNCHANGED notP
    /\ ppc = "new"
    /\ parameters' = MLPClassif(input_size, hidden_size, output_size)
    /\ ppc' = "built"
    /\ UNCHANGED <<input_size, hidden_size, output_size, num_params>>

\* print("Total number of parameters:", sum(p.numel() for p in ...))
CountParameters ==
    /\ UNCHANGED notP
    /\ ppc = "built"
    /\ num_params' = sum_numel(parameters)
    /\ ppc' = "counted"
    /\ UNCHANGED <<input_size, hidden_size, output_size, parameters>>

(***************************************************************************)
(* The autograd exercise: loss = (y - (w*x + b))^2 and its gradients       *)
(***************************************************************************)
MaxValue == 2

\* Program constants: the values of the exercise cell
ExerciseX == 2
ExerciseY == 10
ExerciseW == 1
ExerciseB == 3

Values == (0 - MaxValue)..MaxValue

\* w * x + b
prediction(x0, w0, b0) == w0 * x0 + b0

\* loss = (y - (w * x + b)) ** 2
loss_value(x0, y0, w0, b0) ==
    (y0 - prediction(x0, w0, b0)) * (y0 - prediction(x0, w0, b0))

\* Gradient of the output of ** 2 with respect to its input u
grad_square(u) == 2 * u

\* (variant: the subtraction passes the gradient on to its second operand
\* with no change of sign)
grad_w_unsigned(x0, y0, w0, b0) ==
    grad_square(y0 - prediction(x0, w0, b0)) * x0

\* loss.backward(), w.grad: back through ** 2, through the second operand of
\* the subtraction (factor -1), through + and to the operand w of w * x
\* (factor x)
grad_w(x0, y0, w0, b0) ==
    grad_square(y0 - prediction(x0, w0, b0)) * (0 - 1) * x0

\* loss.backward(), b.grad: back through ** 2, through the second operand of
\* the subtraction (factor -1) and to the operand b of + (factor 1)
grad_b(x0, y0, w0, b0) ==
    grad_square(y0 - prediction(x0, w0, b0)) * (0 - 1)

InitGrad ==
    /\ \E v \in (Values \X Values \X Values \X Values)
                  \cup {<<ExerciseX, ExerciseY, ExerciseW, ExerciseB>>} :
           /\ ex_x = v[1]
           /\ ex_y = v[2]
           /\ ex_w = v[3]
           /\ ex_b = v[4]
    /\ ex_loss = 0
    /\ w_grad = 0
    /\ b_grad = 0
    /\ gpc = "new"

IdleGrad ==
    /\ ex_x = 0
    /\ ex_y = 0
    /\ ex_w = 0
    /\ ex_b = 0
    /\ ex_loss = 0
    /\ w_grad = 0
    /\ b_grad = 0
    /\ gpc = "idle"

\* loss = (y - (w * x + b)) ** 2
ComputeLoss ==
    /\ UNCHANGED notG
    /\ gpc = "new"
    /\ ex_loss' = loss_value(ex_x, ex_y, ex_w, ex_b)
    /\ gpc' = "forward"
    /\ UNCHANGED <<ex_x, ex_y, ex_w, ex_b, w_grad, b_grad>>

\* loss.backward()
LossBackward ==
    /\ UNCHANGED notG
    /\ gpc = "forward"
    /\ w_grad' = grad_w(ex_x, ex_y, ex_w, ex_b)
    /\ b_grad' = grad_b(ex_x, ex_y, ex_w, ex_b)
    /\ gpc' = "backward"
    /\ UNCHANGED <<ex_x, ex_y, ex_w, ex_b, ex_loss>>

(***************************************************************************)
(* Properties of the training loops                                        *)
(***************************************************************************)
Ended == pc \in {"returned", "raised"}

FixedOrder == <<"forward", "loss", "zero_grad", "backward", "step">>

IsPrefix(a, b) == Len(a) <= Len(b) /\ a = SubSeq(b, 1, Len(a))

\* C1 (as stated, for training_val_cnn_classifier): the calls made for a batch
\* follow the order forward, loss, zero_grad, backward, step, and once the run
\* has ended the number of optimizer steps is num_epochs times the number of
\* batches of an epoch.
C1_StepsAfterRun ==
    (fn = "training_val_cnn_classifier" /\ Ended) =>
        /\ IsPrefix(ops, FixedOrder)
        /\ opt_steps = num_epochs * TrainBatches

\* C2: whatever a training function does, the caller's model object keeps the
\* parameters, the mode and the device it had at the call.
C2_CallerModelUnchanged ==
    fn \in Classifiers => model = model0

\* A training function has returned after at least two optimizer steps on a
\* copy whose mode differs from the caller's model's.
C2_Witness ==
    /\ fn \in Classifiers
    /\ pc = "returned"
    /\ opt_steps >= 2
    /\ model_tr.params >= 2
    /\ model_tr.training # model0.training

\* C3 (as stated, for training_val_cnn_classifier): a run that has ended has
\* run num_epochs epochs, each over every batch of the training dataloader,
\* and train_losses and val_accuracies hold num_epochs entries each.
C3_AllEpochsRun ==
    (fn = "training_val_cnn_classifier" /\ Ended) =>
        /\ epoch = num_epochs
        /\ Len(train_losses) = num_epochs
        /\ Len(val_accuracies) = num_epochs
        /\ Len(passes) = num_epochs
        /\ \A k \in 1..Len(passes) : passes[k] = TrainBatches

\* Epoch k has the greatest validation accuracy, and is the earliest such epoch
BestEpoch(k) ==
    /\ k \in 1..Len(val_accuracies)
    /\ \A j \in 1..Len(val_accuracies) :
           ~Greater(val_accuracies[j], val_accuracies[k])
    /\ \A j \in 1..(k - 1) : Greater(val_accuracies[k], val_accuracies[j])

\* C4 (as stated): the model returned after at least one epoch is the copy of
\* model_tr made at the end of the earliest epoch of greatest validation
\* accuracy.
C4_ReturnsBestEpoch ==
    (fn \in WithValidation /\ num_epochs >= 1 /\ pc = "returned") =>
        /\ BestEpoch(opt_epoch)
        /\ model_opt.params = opt_epoch * TrainBatches

(***************************************************************************)
(* Properties of the Dataset helpers                                       *)
(***************************************************************************)
\* C5 (as stated): the token list returned by _tokenize_text holds exactly
\* max_seq_len tokens.
C5_TokensHaveMaxSeqLen ==
    tokens # NotCalled => Len(tokens) = max_seq_len

\* C6: after _set_duration the signal has max_len samples, sample i being
\* sample i of the input where the input has one and zero elsewhere; a second
\* call leaves the result of the first unchanged.
C6_SetDuration ==
    calls >= 1 =>
        /\ Len(y) = max_len(max_dur2, sampling_frequency)
        /\ \A i \in 1..Len(y) : y[i] = IF i <= Len(y_in) THEN y_in[i] ELSE 0
        /\ calls = 2 => y = y_once

\* A signal shorter than max_len has been padded and passed a second time.
C6_Witness ==
    /\ calls = 2
    /\ 0 < Len(y_in)
    /\ Len(y_in) < max_len(max_dur2, sampling_frequency)

(***************************************************************************)
(* Properties of the Dataset classes and of the dataloaders                *)
(***************************************************************************)
\* The files of the directory that match the pattern of the class
Matching == {f \in DOMAIN directory : fnmatch(f, Pattern(cls))}

\* The place in the path list that __getitem__(index) reads
Place == IF index >= 0 THEN index + 1 ELSE Len(path_list) + index + 1

\* The label written after the tab of a line
LabelIn(l) == IF \E k \in 1..Len(l) - 1 : l[k] = "\t" /\ l[k + 1] = "1" THEN 1 ELSE 0

\* C7: once constructed, a Dataset has as many samples as files match its
\* pattern, its path list holds those files in increasing order of their
\* paths, __getitem__(i) returns the sample read from path i of that list
\* (the pixels of the image scaled to [0, 1], the signal of the audio file
\* set to max_len samples, the token ids and label of the text file), and in
\* TextDataset label i is the label parsed from file i.
C7_DatasetIndexing ==
    constructed =>
        /\ len(path_list) = Cardinality(Matching)
        /\ Range(path_list) = Matching
        /\ \A i, j \in 1..Len(path_list) :
               i < j => str_less(path_list[i], path_list[j])
        /\ cls = "TextDataset" =>
               /\ Len(labels) = Len(path_list)
               /\ \A i \in 1..Len(labels) :
                      labels[i] = LabelIn(directory[path_list[i]])
        /\ item # NoItem =>
               /\ item.path = path_list[Place]
               /\ cls = "ImageDataset" =>
                      /\ Len(item.x) = Len(directory[item.path])
                      /\ \A k \in 1..Len(item.x) :
                             item.x[k].num = directory[item.path][k]
                                 /\ item.x[k].den = 255
               /\ cls = "SpeechDataset" =>
                      /\ item.fs = directory[item.path].fs
                      /\ 2 * Len(item.x) <= self_max_dur2 * item.fs
                      /\ self_max_dur2 * item.fs < 2 * (Len(item.x) + 1)
                      /\ \A k \in 1..Len(item.x) :
                             item.x[k] = IF k <= Len(directory[item.path].y)
                                         THEN directory[item.path].y[k] ELSE 0
               /\ cls = "TextDataset" =>
                      /\ item.label = LabelIn(directory[item.path])
                      /\ Len(item.x) >= self_max_seq_len

\* The second sample of a TextDataset has been read, os.walk having listed
\* the files in another order than the sorted one.
C7_Witness ==
    /\ constructed
    /\ cls = "TextDataset"
    /\ item # NoItem
    /\ index = 1
    /\ walk # path_list
    /\ item.label # labels[1]

\* C8: a dataloader with drop_last=True yields floor(N / batch_size) batches
\* of exactly batch_size samples, 50 for the training and 6 for the test
\* dataloader of lab 3, so the reshape of the loop body never fails.
C8_DropLast ==
    (lpc # "idle" /\ loader.drop_last) =>
        /\ \A i \in 1..Len(batches) : batches[i] = loader.batch_size
        /\ lpc # "raised"
        /\ lpc = "done" => Len(batches) = loader.n \div loader.batch_size
        /\ (lpc = "done" /\ loader = Lab3TrainLoader) => Len(batches) = 50
        /\ (lpc = "done" /\ loader = Lab3TestLoader) => Len(batches) = 6

\* The test dataloader of lab 3 has been iterated to its end.
C8_Witness ==
    /\ loader = Lab3TestLoader
    /\ lpc = "done"
    /\ Len(batches) = 6

\* C9 (as stated): iterating the dataloader over a dataset of 150 images
\* with batch_size 5 and no drop_last gives 30 batches of 5 images and a last
\* batch of 1 image.
C9_LastBatchOfOne ==
    (loader = StatedImageLoader /\ lpc = "done") =>
        /\ Len(batches) = 31
        /\ \A i \in 1..30 : batches[i] = 5
        /\ batches[31] = 1

\* C9 (amended): without drop_last a dataloader yields floor(N / batch_size)
\* batches of batch_size samples and then, only if N is no multiple of
\* batch_size, one batch with the remaining samples; over the 151 images of
\* the corpus with batch_size 5 that is 30 batches of 5 images and a last
\* batch of 1 image, over exactly 150 images it is 30 batches of 5 images
\* and no other.
C9_RemainderBatch ==
    (lpc = "done" /\ ~loader.drop_last) =>
        LET q == loader.n \div loader.batch_size
            r == loader.n % loader.batch_size
        IN  /\ Len(batches) = q + (IF r = 0 THEN 0 ELSE 1)
            /\ \A i \in 1..q : batches[i] = loader.batch_size
            /\ r # 0 => batches[q + 1] = r
            /\ loader = ImageLoader =>
                   /\ Len(batches) = 31
                   /\ \A i \in 1..30 : batches[i] = 5
                   /\ batches[31] = 1
            /\ loader = StatedImageLoader =>
                   /\ Len(batches) = 30
                   /\ \A i \in 1..30 : batches[i] = 5

\* The dataloader over exactly 150 images has been iterated to its end.
C9_Witness ==
    /\ loader = StatedImageLoader
    /\ lpc = "done"
    /\ Len(batches) = 30

\* C10 (as stated): in the autoencoder notebook valid_dataloader iterates
\* over valid_data, the second part of the split, and yields no other sample.
C10_ValidLoaderOverValidData ==
    (notebook = "autoencoder" /\ npc \in {"iterating", "done"}) =>
        /\ valid_dataloader = valid_data
        /\ \A i \in 1..Len(yielded) : yielded[i] \in Range(valid_data)

\* C11: the split gives two disjoint parts of the training data, of
\* int(0.8 * N) and N - int(0.8 * N) samples (1600 and 400 for N = 2000),
\* which together are the N samples, and no sample of the validation part is
\* in a batch used in an optimizer step of train_val_mlp_classifier.
C11_SplitDisjoint ==
    npc \in {"training", "iterating", "done", "raised", "value_error"} =>
        LET N == Len(full_data) IN
        /\ 5 * Len(train_data) <= 4 * N
        /\ 4 * N < 5 * (Len(train_data) + 1)
        /\ Len(valid_data) = N - Len(train_data)
        /\ Len(train_data) + Len(valid_data) = N
        /\ Cardinality(Range(train_data)) = Len(train_data)
        /\ Cardinality(Range(valid_data)) = Len(valid_data)
        /\ Range(train_data) \cap Range(valid_data) = {}
        /\ Range(train_data) \cup Range(valid_data) = Range(full_data)
        /\ stepped \cap Range(valid_data) = {}
        /\ n_train_examples(Lab4SubsetSize) = 1600
        /\ n_valid_examples(Lab4SubsetSize) = 400

\* The epoch over the training part is done, with optimizer steps, and the
\* validation part, which is not empty, has been iterated.
C11_Witness ==
    /\ notebook = "overfitting"
    /\ npc = "done"
    /\ stepped = Range(train_data)
    /\ stepped # {}
    /\ valid_data # <<>>
    /\ Len(yielded) = Len(valid_data)

\* C14: for the classifier training functions, entry k of train_losses is
\* the average loss per sample of epoch k: the sum over the batches of the
\* epoch of the batch loss times the samples of the batch, divided by the
\* samples processed in the epoch; in training_val_cnn_classifier also when
\* the last batch is smaller than batch_size.
C14_AverageLossPerSample ==
    fn \in Classifiers =>
        \A k \in 1..Len(train_losses) :
            /\ epoch_log[k].samples > 0
            /\ train_losses[k].den > 0
            /\ train_losses[k].num * epoch_log[k].samples
                   = epoch_log[k].sum * train_losses[k].den

\* training_val_cnn_classifier has stored the loss of an epoch whose last
\* batch was smaller than batch_size, with different losses in its batches.
C14_Witness ==
    /\ fn = "training_val_cnn_classifier"
    /\ Len(train_losses) >= 1
    /\ train_n % batch_size # 0
    /\ train_n > batch_size
    /\ epoch_log[1].samples = train_n
    /\ epoch_log[1].sum # epoch_log[1].samples
    /\ epoch_log[1].sum # 2 * epoch_log[1].samples

RECURSIVE SumSeq(_)
SumSeq(l) == IF l = <<>> THEN 0 ELSE Head(l) + SumSeq(Tail(l))

\* C12 (as stated): the evaluation of the lab 3 model on the test set counts
\* every image of test_data: total_labels is 50 when the function returns.
C12_WholeTestSet ==
    (loader = Lab3TestLoader /\ lpc = "returned") => total_labels = Lab3TestSize

\* C13: in an eval function, after every batch total_labels is the number of
\* samples iterated and 0 <= correct_labels <= total_labels; the function
\* returns 100 * correct_labels / total_labels, which lies in [0, 100].
C13_AccuracyRange ==
    (lpc # "idle" /\ loader.eval) =>
        /\ lpc # "raised" => total_labels = SumSeq(batches)
        /\ 0 <= correct_labels
        /\ correct_labels <= total_labels
        /\ lpc = "returned" =>
               /\ eval_accuracy.den > 0
               /\ eval_accuracy.num * total_labels
                      = 100 * correct_labels * eval_accuracy.den
               /\ 0 <= eval_accuracy.num
               /\ eval_accuracy.num <= 100 * eval_accuracy.den

\* An eval function has returned an accuracy strictly between 0 and 100
\* after more than one batch.
C13_Witness ==
    /\ loader.eval
    /\ lpc = "returned"
    /\ Len(batches) >= 2
    /\ 0 < correct_labels
    /\ correct_labels < total_labels

\* C15 (as stated): the lab 3 MLP classifier with input_size 784,
\* hidden_size 10 and output_size 10 has 8060 parameters.
C15_Has8060Parameters ==
    (ppc = "counted" /\ input_size = 784 /\ hidden_size = 10 /\ output_size = 10)
        => num_params = 8060

\* C15 (amended): the MLP classifier has input_size * hidden_size +
\* hidden_size weights and biases in its input layer, hidden_size *
\* hidden_size + hidden_size in its hidden layer and hidden_size *
\* output_size + output_size in its output layer, which is 8070 parameters
\* for input_size 784, hidden_size 10 and output_size 10.
C15_Has8070Parameters ==
    ppc = "counted" =>
        /\ num_params = (input_size * hidden_size + hidden_size)
                        + (hidden_size * hidden_size + hidden_size)
                        + (hidden_size * output_size + output_size)
        /\ (input_size = 784 /\ hidden_size = 10 /\ output_size = 10)
               => num_params = 8070

\* The parameters of the lab 3 network have been counted.
C15_Witness ==
    /\ ppc = "counted"
    /\ input_size = 784
    /\ hidden_size = 10
    /\ output_size = 10
    /\ Len(parameters) = 6

\* C16: after loss.backward() on loss = (y - (w*x + b))^2, w.grad and b.grad
\* are the derivatives of the loss with respect to w and b (for this
\* quadratic loss, half the difference of the loss one unit above and one
\* unit below the parameter); for x = 2, y = 10, w = 1 and b = 3 they are
\* -20 and -10.
C16_Gradients ==
    gpc = "backward" =>
        /\ 2 * w_grad = loss_value(ex_x, ex_y, ex_w + 1, ex_b)
                          - loss_value(ex_x, ex_y, ex_w - 1, ex_b)
        /\ 2 * b_grad = loss_value(ex_x, ex_y, ex_w, ex_b + 1)
                          - loss_value(ex_x, ex_y, ex_w, ex_b - 1)
        /\ (ex_x = 2 /\ ex_y = 10 /\ ex_w = 1 /\ ex_b = 3) =>
               /\ w_grad = 0 - 20
               /\ b_grad = 0 - 10

\* The gradients of the exercise have been computed.
C16_Witness ==
    /\ gpc = "backward"
    /\ ex_x = 2
    /\ ex_y = 10
    /\ ex_w = 1
    /\ ex_b = 3
    /\ ex_loss = 25

(***************************************************************************)
(* Specifications                                                          *)
(***************************************************************************)
\* One run of a training loop
InitSpec ==
    InitTrain /\ IdleSpeech /\ IdleText /\ IdleDataset /\ IdleLoader /\ IdleCell
        /\ IdleParams /\ IdleGrad

Spec == InitSpec /\ [][NextTrain]_vars

\* Calls of SpeechDataset._set_duration
InitSpecSpeech ==
    InitSpeech /\ IdleTrain /\ IdleText /\ IdleDataset /\ IdleLoader /\ IdleCell
        /\ IdleParams /\ IdleGrad

NextSpeech == SetDuration

SpecSpeech == InitSpecSpeech /\ [][NextSpeech]_vars

\* A call of TextDataset._tokenize_text
InitSpecText ==
    InitText /\ IdleTrain /\ IdleSpeech /\ IdleDataset /\ IdleLoader /\ IdleCell
        /\ IdleParams /\ IdleGrad

NextText == TokenizeText

SpecText == InitSpecText /\ [][NextText]_vars

\* Construction and use of a Dataset object
InitSpecDataset ==
    InitDataset /\ IdleTrain /\ IdleSpeech /\ IdleText /\ IdleLoader /\ IdleCell
        /\ IdleParams /\ IdleGrad

NextDataset ==
    \/ Construct
    \/ GetItem

SpecDataset == InitSpecDataset /\ [][NextDataset]_vars

\* One iteration over a dataloader
InitSpecLoader ==
    InitLoader /\ IdleTrain /\ IdleSpeech /\ IdleText /\ IdleDataset /\ IdleCell
        /\ IdleParams /\ IdleGrad

NextLoader ==
    \/ NextBatch
    \/ StopIteration
    \/ EvalReturn

SpecLoader == InitSpecLoader /\ [][NextLoader]_vars

\* The split cell of a notebook and one pass over its valid_dataloader
InitSpecCell ==
    InitCell /\ IdleTrain /\ IdleSpeech /\ IdleText /\ IdleDataset /\ IdleLoader
        /\ IdleParams /\ IdleGrad

NextCell ==
    \/ SplitCell
    \/ TrainBatch
    \/ ValidBatch
    \/ ValidDone

SpecCell == InitSpecCell /\ [][NextCell]_vars

\* The cells that build the lab 3 network and count its parameters
InitSpecParams ==
    InitParams /\ IdleTrain /\ IdleSpeech /\ IdleText /\ IdleDataset
        /\ IdleLoader /\ IdleCell /\ IdleGrad

NextParams ==
    \/ Instantiate
    \/ CountParameters

SpecParams == InitSpecParams /\ [][NextParams]_vars

\* The autograd exercise cell
InitSpecGrad ==
    InitGrad /\ IdleTrain /\ IdleSpeech /\ IdleText /\ IdleDataset
        /\ IdleLoader /\ IdleCell /\ IdleParams

NextGrad ==
    \/ ComputeLoss
    \/ LossBackward

SpecGrad == InitSpecGrad /\ [][NextGrad]_vars
====
